---- MODULE Spec2Model ----
(***************************************************************************)
(* The monorepo pack handler (ceres/src/pack/monorepo.rs): MonoRepo's      *)
(* head_hash, unpack and update_refs, run by handler tasks against the     *)
(* shared mega storage.  Every storage call is one atomic step; the local  *)
(* computation between two storage calls belongs to the step of the call   *)
(* that precedes it.                                                       *)
(*                                                                         *)
(* Hashes are 40 hexadecimal characters in the program; they are written   *)
(* here with 8, which keeps the part behind the 6-character prefix that    *)
(* comment_for_force_update cuts off.  Paths are sequences of components:  *)
(* "/" is <<>>, "/lib/a" is <<"lib", "a">>.                                *)
(***************************************************************************)
EXTENDS Integers, Sequences, FiniteSets, TLC

VARIABLES
    mega_refs,      \* storage: path -> stored reference, NoRef when absent
    mega_commits,   \* storage: the commit table, a set of commit records
    mega_mrs,       \* storage: merge request id -> merge request record
    mr_convs,       \* storage: the comments of merge requests, in call order
    saved_entries,  \* storage: the pack entries persisted by save_entry
    next_id,        \* the id generator behind MergeRequest::default()
    pc,             \* handler -> the storage call it is about to make
    op,             \* handler -> the PackHandler method it runs
    args,           \* handler -> the MonoRepo fields and the method's input
    receiver,       \* handler -> entries still in the pack decoder's channel
    mr,             \* handler -> local mr of unpack
    mr_exist,       \* handler -> local mr_exist of unpack
    commit_size,    \* handler -> local commit_size of unpack
    comment,        \* handler -> the comment text unpack is about to record
    ref_hash,       \* handler -> local ref_hash of head_hash
    tree,           \* handler -> local tree of head_hash (its id)
    walked,         \* handler -> number of path components head_hash has walked
    new_commit,     \* handler -> local c of head_hash
    refs_out,       \* handler -> the ref list the method returned
    pre,            \* the storage as it was when the call now running alone started
    last_head,      \* path -> hash advertised by the last finished head_hash
    calls,          \* number of calls started so far
    pk_pc,          \* pack call: the storage call it is about to make
    pk_op,          \* pack call: full_pack or incremental_pack
    want,           \* incremental_pack: its argument want
    have,           \* incremental_pack: its argument have
    commits,        \* incremental_pack: local commits
    traversal_list, \* incremental_pack: local traversal_list
    want_commits,   \* incremental_pack: local want_commits
    emit_idx,       \* incremental_pack: position of for c in want_commits
    exist_objs,     \* incremental_pack: local exist_objs
    channel,        \* the entries sent through sender, in order
    sender_closed,  \* drop(sender) has happened
    obj_num,        \* local obj_num
    encoder_obj_num, \* the object count PackEncoder::new was given, 0 before
    fn_op,          \* object parsing: the function applied
    fn_src,         \* object parsing: the objects the input was serialized from
    fn_in,          \* object parsing: its input bytes
    fn_out,         \* object parsing: its outcome
    se_pc,          \* save_entry: its position
    se_receiver,    \* save_entry: the entries still in the channel
    entry_list,     \* save_entry: local entry_list
    save_calls,     \* storage: the lists storage.save_entry was called with
    se_commit_size  \* save_entry: local commit_size

vars == << mega_refs, mega_commits, mega_mrs, mr_convs, saved_entries, next_id,
           pc, op, args, receiver, mr, mr_exist, commit_size, comment,
           ref_hash, tree, walked, new_commit, refs_out, pre, last_head, calls,
           pk_pc, pk_op, want, have, commits, traversal_list, want_commits,
           emit_idx, exist_objs, channel, sender_closed, obj_num,
           encoder_obj_num, fn_op, fn_src, fn_in, fn_out, se_pc, se_receiver,
           entry_list, save_calls, se_commit_size >>

storeVars == << mega_refs, mega_commits, mega_mrs, mr_convs, saved_entries >>
unpackLocals == << receiver, mr, mr_exist, commit_size, comment >>
headLocals == << ref_hash, tree, walked, new_commit >>
packVars == << pk_pc, pk_op, want, have, commits, traversal_list, want_commits,
               emit_idx, exist_objs, channel, sender_closed, obj_num,
               encoder_obj_num >>
fnVars == << fn_op, fn_src, fn_in, fn_out >>
sinkVars == << se_pc, se_receiver, entry_list, save_calls, se_commit_size >>
handlerVars == << next_id, pc, op, args, unpackLocals, headLocals, refs_out,
                  pre, last_head, calls >>

(***************************************************************************)
(* Bounds and program constants                                            *)
(***************************************************************************)
MaxCalls == 3

\* save_entry flushes when entry_list.len() >= 1000
BatchSize == 1000

\* comment_for_force_update keeps &from[..6] and &to[..6]
PrefixLen == 6

Handlers == {"h1", "h2"}
SeqHandlers == {"h1"}

RootPath == <<>>
PushPaths == { <<"lib">>, <<"lib", "a">> }
HeadPaths == { RootPath, <<"lib">>, <<"lib", "a">>, <<"nope">>, <<"README">> }
AllPaths == PushPaths \cup HeadPaths

FromHashes == { "0f0f0f01", "1a2b3c4d" }
ToHashes == { "1a2b3c99", "5e6f7a8b" }

\* The clock readings Commit::from_tree_id can see
Times == { "1", "2" }

Entry(t, h) == [obj_type |-> t, hash |-> h]

\* Decoded packs: one commit with its tree and blob, and two commits
SinglePack == << Entry("commit", "c1000001"), Entry("tree", "e1000001"),
                 Entry("blob", "b1000001") >>
MultiPack == << Entry("commit", "c2000001"), Entry("commit", "c2000002"),
                Entry("tree", "e2000001") >>
Packs == { SinglePack, MultiPack }

NoHash == ""
NoRef == [ref_commit_hash |-> NoHash, ref_tree_hash |-> NoHash]
NoMr == [id |-> 0, path |-> <<>>, from_hash |-> NoHash, to_hash |-> NoHash,
         status |-> "none"]
NoCommit == [id |-> NoHash, tree_id |-> NoHash, parent_commit_ids |-> <<>>,
             message |-> ""]
NoArgs == [path |-> <<>>, from_hash |-> NoHash, to_hash |-> NoHash, pack |-> <<>>]
NoPre == [refs |-> <<>>, commits |-> {}, mrs |-> <<>>, convs |-> <<>>,
          entries |-> {}]

Range(s) == { s[i] : i \in 1..Len(s) }

(***************************************************************************)
(* The object store the handlers read: one root commit, its tree with a    *)
(* file and the directory lib, and lib with the directory a.               *)
(***************************************************************************)
RootCommit == [id |-> "c0000000", tree_id |-> "e0000000",
               parent_commit_ids |-> <<>>, message |-> "init"]

TreeItem(mode, name, id) == [mode |-> mode, name |-> name, id |-> id]

\* The trees of the commits A <- B <- C, A <- X and the merge M of C and X
PackTrees ==
    [ h \in {"e1a00000", "e1b00000", "e1c00000", "e1d00000", "e1e00000",
             "e1100000", "e1200000"} |->
        CASE h = "e1a00000" ->
                << TreeItem("100644", "f", "b1000000"),
                   TreeItem("40000", "lib", "e1100000") >>
          [] h = "e1b00000" ->
                << TreeItem("100644", "f", "b1200000"),
                   TreeItem("40000", "lib", "e1100000") >>
          [] h = "e1c00000" ->
                << TreeItem("100644", "f", "b1200000"),
                   TreeItem("100644", "h", "b1300000"),
                   TreeItem("40000", "lib", "e1100000") >>
          [] h = "e1d00000" ->
                << TreeItem("100644", "f", "b1000000"),
                   TreeItem("40000", "lib", "e1100000"),
                   TreeItem("100644", "x", "b1400000") >>
          [] h = "e1e00000" ->
                << TreeItem("100644", "f", "b1200000"),
                   TreeItem("100644", "h", "b1300000"),
                   TreeItem("40000", "lib", "e1200000"),
                   TreeItem("100644", "x", "b1400000") >>
          [] h = "e1100000" ->
                << TreeItem("100644", "g", "b1100000") >>
          [] h = "e1200000" ->
                << TreeItem("100644", "g", "b1100000"),
                   TreeItem("100644", "k", "b1500000") >> ]

Commit(id, tree_id, parents) ==
    [id |-> id, tree_id |-> tree_id, parent_commit_ids |-> parents,
     message |-> "change"]

PackCommits ==
    { Commit("ca000000", "e1a00000", <<>>),
      Commit("cb000000", "e1b00000", << "ca000000" >>),
      Commit("cc000000", "e1c00000", << "cb000000" >>),
      Commit("cd000000", "e1d00000", << "ca000000" >>),
      Commit("ce000000", "e1e00000", << "cc000000", "cd000000" >>) }

PackTags == { "da000000" }

MegaTrees ==
    [ h \in {"e0000000", "e0000002", "e0000003"} \cup DOMAIN PackTrees |->
        CASE h = "e0000000" ->
                << TreeItem("100644", "README", "b0000001"),
                   TreeItem("40000", "lib", "e0000002") >>
          [] h = "e0000002" ->
                << TreeItem("40000", "a", "e0000003"),
                   TreeItem("100644", "mod.rs", "b0000002") >>
          [] h = "e0000003" ->
                << TreeItem("100644", "x.rs", "b0000003") >>
          [] OTHER -> PackTrees[h] ]

(***************************************************************************)
(* The storage operations the handlers call (jupiter's mega storage) and   *)
(* the merge request type (venus::monorepo::mr).                           *)
(***************************************************************************)
\* MergeRequest { path, from_hash, to_hash, ..Default::default() }: a fresh
\* id and the state Open
NewMergeRequest(id, path, from, to) ==
    [id |-> id, path |-> path, from_hash |-> from, to_hash |-> to,
     status |-> "open"]

\* MergeRequest::close
Close(m) == [m EXCEPT !.status = "closed"]

\* storage.get_open_mr(path): the ids of the merge requests it may return
GetOpenMr(path) ==
    { id \in DOMAIN mega_mrs :
        mega_mrs[id].path = path /\ mega_mrs[id].status = "open" }

\* storage.save_mr(mr): a new row
StoreSaveMr(m) == mega_mrs' = (m.id :> m) @@ mega_mrs

\* storage.update_mr(mr): the row of mr.id, every column rewritten
StoreUpdateMr(m) == mega_mrs' = [mega_mrs EXCEPT ![m.id] = m]

\* storage.add_mr_comment(mr_id, user_id, comment)
StoreAddMrComment(id, user, text) ==
    mr_convs' = Append(mr_convs, [mr_id |-> id, user_id |-> user, text |-> text])

\* storage.save_entry(entry_list): idempotent under hash identity
StoreSaveEntry(list) == saved_entries' = saved_entries \cup Range(list)

\* storage.get_ref(path)
GetRef(path) == mega_refs[path]

\* storage.save_ref(path, commit_hash, tree_hash): atomic replace
StoreSaveRef(path, commit_hash, tree_hash) ==
    mega_refs' = [mega_refs EXCEPT ![path] =
                    [ref_commit_hash |-> commit_hash, ref_tree_hash |-> tree_hash]]

\* storage.get_commit_by_hash(hash): the rows with that id
GetCommitByHash(hash) == { c \in mega_commits : c.id = hash }

\* storage.get_trees_by_hashes(hashes): missing hashes are simply absent
GetTreesByHashes(hashes) ==
    SelectSeq(hashes, LAMBDA h : h \in DOMAIN MegaTrees)

\* storage.save_mega_commits(commits)
StoreSaveMegaCommits(cs) == mega_commits' = mega_commits \cup Range(cs)

\* No call is running
Quiet == \A h \in Handlers : pc[h] = "idle"

Snapshot ==
    [refs |-> mega_refs, commits |-> mega_commits, mrs |-> mega_mrs,
     convs |-> mr_convs, entries |-> saved_entries]

(***************************************************************************)
(* MonoRepo::unpack                                                        *)
(***************************************************************************)
\* A force update comment that forgets to cut the hashes
comment_with_whole_hashes(from, to) ==
    "Mega updated the mr automatic from " \o from \o " to " \o to

\* comment_for_force_update(from, to)
comment_for_force_update(from, to) ==
    "Mega updated the mr automatic from " \o SubSeq(from, 1, PrefixLen)
        \o " to " \o SubSeq(to, 1, PrefixLen)

ConflictComment == "Mega closed MR due to conflict"
MultiCommitComment == "Mega closed MR due to multi commit detected"

CommitCount(list) ==
    Cardinality({ i \in 1..Len(list) : list[i].obj_type = "commit" })

\* The call arrives: pack_decoder(pack_file) fills the channel
StartUnpackWith(h, paths, packs) ==
    /\ pc[h] = "idle"
    /\ calls < MaxCalls
    /\ \E path \in paths, from \in FromHashes, to \in ToHashes, pack \in packs :
         /\ args' = [args EXCEPT ![h] =
                [path |-> path, from_hash |-> from, to_hash |-> to, pack |-> pack]]
         /\ receiver' = [receiver EXCEPT ![h] = pack]
    /\ op' = [op EXCEPT ![h] = "unpack"]
    /\ pc' = [pc EXCEPT ![h] = "get_mr"]
    /\ pre' = IF Quiet THEN Snapshot ELSE pre
    /\ calls' = calls + 1
    /\ UNCHANGED << storeVars, next_id, mr, mr_exist, commit_size, comment,
                    headLocals, refs_out, last_head >>
    /\ UNCHANGED << packVars, fnVars, sinkVars >>

StartUnpack(h) == StartUnpackWith(h, PushPaths, Packs)

\* A branch choice that saves the merge request of a new push without
\* persisting the pack
UnpackBranchSkipsSave(m, exist, from, to) ==
    IF exist
    THEN IF m.from_hash = from
         THEN IF m.to_hash # to THEN "add_comment_update" ELSE "update_mr"
         ELSE "add_comment_conflict"
    ELSE "save_mr"

\* A branch choice that persists the pack of a push that repeats the merge
\* request's hashes
UnpackBranchSameSaves(m, exist, from, to) ==
    IF exist
    THEN IF m.from_hash = from THEN "add_comment_update" ELSE "add_comment_conflict"
    ELSE "save_entry_new"

\* Which way unpack goes once get_mr has answered
UnpackBranch(m, exist, from, to) ==
    IF exist
    THEN IF m.from_hash = from
         THEN IF m.to_hash # to THEN "add_comment_update" ELSE "update_mr"
         ELSE "add_comment_conflict"
    ELSE "save_entry_new"

\* A conflict branch that forgets mr.close()
BranchMrNoClose(m, exist, from, to) ==
    IF exist /\ m.from_hash = from THEN [m EXCEPT !.to_hash = to] ELSE m

\* A force update that forgets mr.to_hash = to_hash
BranchMrKeepsTo(m, exist, from, to) ==
    IF exist /\ m.from_hash # from THEN Close(m) ELSE m

\* A conflict branch that also takes over the from_hash of the push
BranchMrTakesFrom(m, exist, from, to) ==
    IF exist
    THEN IF m.from_hash = from
         THEN [m EXCEPT !.to_hash = to]
         ELSE [Close(m) EXCEPT !.from_hash = from]
    ELSE m

\* The local mr after the branch was taken, before the next storage call
BranchMr(m, exist, from, to) ==
    IF exist
    THEN IF m.from_hash = from
         THEN [m EXCEPT !.to_hash = to]
         ELSE Close(m)
    ELSE m

\* get_mr, commit_size = 0 and the tests that pick the branch
GetMr(h) ==
    /\ pc[h] = "get_mr"
    /\ \/ \E id \in GetOpenMr(args[h].path) :
            LET m == mega_mrs[id] IN
            /\ mr_exist' = [mr_exist EXCEPT ![h] = TRUE]
            /\ mr' = [mr EXCEPT ![h] =
                        BranchMr(m, TRUE, args[h].from_hash, args[h].to_hash)]
            /\ comment' = [comment EXCEPT ![h] =
                  IF UnpackBranch(m, TRUE, args[h].from_hash, args[h].to_hash)
                        = "add_comment_update"
                  THEN comment_for_force_update(m.to_hash, args[h].to_hash)
                  ELSE ""]
            /\ pc' = [pc EXCEPT ![h] =
                        UnpackBranch(m, TRUE, args[h].from_hash, args[h].to_hash)]
            /\ UNCHANGED next_id
       \/ /\ GetOpenMr(args[h].path) = {}
          /\ LET m == NewMergeRequest(next_id, args[h].path, args[h].from_hash,
                                      args[h].to_hash) IN
             /\ mr_exist' = [mr_exist EXCEPT ![h] = FALSE]
             /\ mr' = [mr EXCEPT ![h] =
                         BranchMr(m, FALSE, args[h].from_hash, args[h].to_hash)]
             /\ pc' = [pc EXCEPT ![h] =
                         UnpackBranch(m, FALSE, args[h].from_hash, args[h].to_hash)]
          /\ next_id' = next_id + 1
          /\ UNCHANGED comment
    /\ commit_size' = [commit_size EXCEPT ![h] = 0]
    /\ UNCHANGED << storeVars, op, args, receiver, headLocals, refs_out, pre,
                    last_head, calls >>
    /\ UNCHANGED << packVars, fnVars, sinkVars >>

\* storage.add_mr_comment(mr.id, 0, Some(comment)) of the force update
AddCommentUpdate(h) ==
    /\ pc[h] = "add_comment_update"
    /\ StoreAddMrComment(mr[h].id, 0, comment[h])
    /\ pc' = [pc EXCEPT ![h] = "save_entry_update"]
    /\ UNCHANGED << mega_refs, mega_commits, mega_mrs, saved_entries, next_id,
                    op, args, unpackLocals, headLocals, refs_out, pre,
                    last_head, calls >>
    /\ UNCHANGED << packVars, fnVars, sinkVars >>

\* storage.add_mr_comment of the conflict branch
AddCommentConflict(h) ==
    /\ pc[h] = "add_comment_conflict"
    /\ StoreAddMrComment(mr[h].id, 0, ConflictComment)
    /\ pc' = [pc EXCEPT ![h] = "update_mr"]
    /\ UNCHANGED << mega_refs, mega_commits, mega_mrs, saved_entries, next_id,
                    op, args, unpackLocals, headLocals, refs_out, pre,
                    last_head, calls >>
    /\ UNCHANGED << packVars, fnVars, sinkVars >>

\* One storage.save_entry call of MonoRepo::save_entry: the flush inside the
\* loop when 1000 entries are buffered, else the flush after the channel closed
SaveEntry(h) ==
    /\ pc[h] \in {"save_entry_update", "save_entry_new"}
    /\ LET full == Len(receiver[h]) >= BatchSize
           n == IF full THEN BatchSize ELSE Len(receiver[h])
           list == SubSeq(receiver[h], 1, n)
       IN /\ StoreSaveEntry(list)
          /\ receiver' = [receiver EXCEPT ![h] =
                            SubSeq(receiver[h], n + 1, Len(receiver[h]))]
          /\ commit_size' = [commit_size EXCEPT ![h] = @ + CommitCount(list)]
          /\ pc' = [pc EXCEPT ![h] =
                      IF full THEN pc[h]
                      ELSE IF pc[h] = "save_entry_update" THEN "update_mr"
                      ELSE "save_mr"]
    /\ UNCHANGED << mega_refs, mega_commits, mega_mrs, mr_convs, next_id, op,
                    args, mr, mr_exist, comment, headLocals, refs_out, pre,
                    last_head, calls >>
    /\ UNCHANGED << packVars, fnVars, sinkVars >>

\* What follows the write of the merge request: if commit_size > 1
AfterMrWrite(size) == IF size > 1 THEN "add_comment_multi" ELSE "done"

\* storage.update_mr(mr.clone())
UpdateMr(h) ==
    /\ pc[h] = "update_mr"
    /\ StoreUpdateMr(mr[h])
    /\ mr' = [mr EXCEPT ![h] = IF commit_size[h] > 1 THEN Close(@) ELSE @]
    /\ pc' = [pc EXCEPT ![h] = AfterMrWrite(commit_size[h])]
    /\ UNCHANGED << mega_refs, mega_commits, mr_convs, saved_entries, next_id,
                    op, args, receiver, mr_exist, commit_size, comment,
                    headLocals, refs_out, pre, last_head, calls >>
    /\ UNCHANGED << packVars, fnVars, sinkVars >>

\* storage.save_mr(mr.clone())
SaveMr(h) ==
    /\ pc[h] = "save_mr"
    /\ StoreSaveMr(mr[h])
    /\ mr' = [mr EXCEPT ![h] = IF commit_size[h] > 1 THEN Close(@) ELSE @]
    /\ pc' = [pc EXCEPT ![h] = AfterMrWrite(commit_size[h])]
    /\ UNCHANGED << mega_refs, mega_commits, mr_convs, saved_entries, next_id,
                    op, args, receiver, mr_exist, commit_size, comment,
                    headLocals, refs_out, pre, last_head, calls >>
    /\ UNCHANGED << packVars, fnVars, sinkVars >>

\* mr.close() and storage.add_mr_comment of the multi commit test
AddCommentMulti(h) ==
    /\ pc[h] = "add_comment_multi"
    /\ StoreAddMrComment(mr[h].id, 0, MultiCommitComment)
    /\ pc' = [pc EXCEPT ![h] = "done"]
    /\ UNCHANGED << mega_refs, mega_commits, mega_mrs, saved_entries, next_id,
                    op, args, unpackLocals, headLocals, refs_out, pre,
                    last_head, calls >>
    /\ UNCHANGED << packVars, fnVars, sinkVars >>

UnpackSteps(h) ==
    \/ GetMr(h)
    \/ AddCommentUpdate(h)
    \/ AddCommentConflict(h)
    \/ SaveEntry(h)
    \/ UpdateMr(h)
    \/ SaveMr(h)
    \/ AddCommentMulti(h)

Unpack(h) == StartUnpack(h) \/ UnpackSteps(h)

(***************************************************************************)
(* MonoRepo::head_hash                                                     *)
(***************************************************************************)
MEGA_BRANCH_NAME == "refs/heads/main"
SyntheticMessage == "This commit was generated by mega for maintain refs"

\* Commit::from_tree_id(tree_id, parents, message): the signatures carry the
\* time of the call, so the id depends on it
FromTreeId(tree_id, parents, message, now) ==
    [id |-> "c" \o now \o SubSeq(tree_id, 3, Len(tree_id)),
     tree_id |-> tree_id, parent_commit_ids |-> parents, message |-> message]

\* Refs from a stored reference (result.unwrap().into())
RefsFromModel(r) == [ref_hash |-> r.ref_commit_hash]

\* The ref head_hash builds for a synthesized commit
SyntheticRefs(c) ==
    [ref_name |-> MEGA_BRANCH_NAME, ref_hash |-> c.id, default_branch |-> TRUE]

\* A lookup that falls back to the first item when no item has the name
FindItemOrFirst(tree_id, name) ==
    LET items == MegaTrees[tree_id]
        hits == { i \in 1..Len(items) : items[i].name = name }
    IN  IF hits = {} THEN { items[1].id }
        ELSE { items[CHOOSE i \in hits : \A j \in hits : i <= j].id }

\* tree.tree_items.iter().find(|x| x.name == path_name).map(|x| x.id):
\* the ids of the first item of that name, none when there is no such item
FindItem(tree_id, name) ==
    LET items == MegaTrees[tree_id]
        hits == { i \in 1..Len(items) : items[i].name = name }
    IN  IF hits = {} THEN {}
        ELSE { items[CHOOSE i \in hits : \A j \in hits : i <= j].id }

StartHeadHashWith(h, paths) ==
    /\ pc[h] = "idle"
    /\ calls < MaxCalls
    /\ \E path \in paths :
         args' = [args EXCEPT ![h] = [NoArgs EXCEPT !.path = path]]
    /\ op' = [op EXCEPT ![h] = "head_hash"]
    /\ pc' = [pc EXCEPT ![h] = "hh_get_ref"]
    /\ pre' = IF Quiet THEN Snapshot ELSE pre
    /\ calls' = calls + 1
    /\ UNCHANGED << storeVars, next_id, unpackLocals, headLocals, refs_out,
                    last_head >>
    /\ UNCHANGED << packVars, fnVars, sinkVars >>

StartHeadHash(h) == StartHeadHashWith(h, HeadPaths)

\* A head_hash that synthesizes a commit on every call
UseStoredRefNever(result) == FALSE

\* Does head_hash answer from the stored reference?
UseStoredRef(result) == result # NoRef

\* storage.get_ref(self.path)
HhGetRef(h) ==
    /\ pc[h] = "hh_get_ref"
    /\ LET result == GetRef(args[h].path) IN
       IF UseStoredRef(result)
       THEN /\ refs_out' = [refs_out EXCEPT ![h] = << RefsFromModel(result) >>]
            /\ pc' = [pc EXCEPT ![h] = "done"]
       ELSE /\ pc' = [pc EXCEPT ![h] = "hh_get_root_ref"]
            /\ UNCHANGED refs_out
    /\ UNCHANGED << storeVars, next_id, op, args, unpackLocals, headLocals, pre,
                    last_head, calls >>
    /\ UNCHANGED << packVars, fnVars, sinkVars >>

\* storage.get_ref("/").await.unwrap().unwrap()
HhGetRootRef(h) ==
    /\ pc[h] = "hh_get_root_ref"
    /\ LET result == GetRef(RootPath) IN
       IF result = NoRef
       THEN /\ pc' = [pc EXCEPT ![h] = "panicked"]
            /\ UNCHANGED ref_hash
       ELSE /\ ref_hash' = [ref_hash EXCEPT ![h] = result.ref_commit_hash]
            /\ pc' = [pc EXCEPT ![h] = "hh_get_commit"]
    /\ UNCHANGED << storeVars, next_id, op, args, unpackLocals, tree, walked,
                    new_commit, refs_out, pre, last_head, calls >>
    /\ UNCHANGED << packVars, fnVars, sinkVars >>

\* storage.get_commit_by_hash(&ref_hash).await.unwrap().unwrap()
HhGetCommit(h) ==
    /\ pc[h] = "hh_get_commit"
    /\ \/ /\ GetCommitByHash(ref_hash[h]) = {}
          /\ pc' = [pc EXCEPT ![h] = "panicked"]
          /\ UNCHANGED << tree, walked >>
       \/ \E commit \in GetCommitByHash(ref_hash[h]) :
            /\ tree' = [tree EXCEPT ![h] = commit.tree_id]
            /\ walked' = [walked EXCEPT ![h] = 0]
            /\ pc' = [pc EXCEPT ![h] = "hh_get_tree"]
    /\ UNCHANGED << storeVars, next_id, op, args, unpackLocals, ref_hash,
                    new_commit, refs_out, pre, last_head, calls >>
    /\ UNCHANGED << packVars, fnVars, sinkVars >>

\* storage.get_trees_by_hashes(vec![id]).await.unwrap()[0], for the root tree
\* and for every component of the path, and the loop up to the next lookup
HhGetTree(h) ==
    /\ pc[h] = "hh_get_tree"
    /\ LET found == GetTreesByHashes(<< tree[h] >>)
           path == args[h].path
       IN  IF found = <<>>
           THEN /\ pc' = [pc EXCEPT ![h] = "panicked"]
                /\ UNCHANGED << tree, walked, new_commit, refs_out >>
           ELSE IF walked[h] = Len(path)
           THEN /\ \E now \in Times :
                     new_commit' = [new_commit EXCEPT ![h] =
                         FromTreeId(found[1], <<>>, SyntheticMessage, now)]
                /\ pc' = [pc EXCEPT ![h] = "hh_save_ref"]
                /\ UNCHANGED << tree, walked, refs_out >>
           ELSE IF FindItem(found[1], path[walked[h] + 1]) = {}
           THEN /\ refs_out' = [refs_out EXCEPT ![h] = <<>>]
                /\ pc' = [pc EXCEPT ![h] = "done"]
                /\ UNCHANGED << tree, walked, new_commit >>
           ELSE /\ \E sha1 \in FindItem(found[1], path[walked[h] + 1]) :
                     tree' = [tree EXCEPT ![h] = sha1]
                /\ walked' = [walked EXCEPT ![h] = @ + 1]
                /\ pc' = [pc EXCEPT ![h] = "hh_get_tree"]
                /\ UNCHANGED << new_commit, refs_out >>
    /\ UNCHANGED << storeVars, next_id, op, args, unpackLocals, ref_hash, pre,
                    last_head, calls >>
    /\ UNCHANGED << packVars, fnVars, sinkVars >>

\* A save_ref call with the commit hash and the tree hash swapped
HhSaveRefSwapped(h) ==
    /\ pc[h] = "hh_save_ref"
    /\ StoreSaveRef(args[h].path, new_commit[h].tree_id, new_commit[h].id)
    /\ pc' = [pc EXCEPT ![h] = "hh_save_commit"]
    /\ UNCHANGED << mega_commits, mega_mrs, mr_convs, saved_entries, next_id,
                    op, args, unpackLocals, headLocals, refs_out, pre,
                    last_head, calls >>
    /\ UNCHANGED << packVars, fnVars, sinkVars >>

\* storage.save_ref(self.path, c.id, c.tree_id)
HhSaveRef(h) ==
    /\ pc[h] = "hh_save_ref"
    /\ StoreSaveRef(args[h].path, new_commit[h].id, new_commit[h].tree_id)
    /\ pc' = [pc EXCEPT ![h] = "hh_save_commit"]
    /\ UNCHANGED << mega_commits, mega_mrs, mr_convs, saved_entries, next_id,
                    op, args, unpackLocals, headLocals, refs_out, pre,
                    last_head, calls >>
    /\ UNCHANGED << packVars, fnVars, sinkVars >>

\* storage.save_mega_commits(vec![c.clone()]) and the returned ref
HhSaveCommit(h) ==
    /\ pc[h] = "hh_save_commit"
    /\ StoreSaveMegaCommits(<< new_commit[h] >>)
    /\ refs_out' = [refs_out EXCEPT ![h] = << SyntheticRefs(new_commit[h]) >>]
    /\ pc' = [pc EXCEPT ![h] = "done"]
    /\ UNCHANGED << mega_refs, mega_mrs, mr_convs, saved_entries, next_id, op,
                    args, unpackLocals, headLocals, pre, last_head, calls >>
    /\ UNCHANGED << packVars, fnVars, sinkVars >>

HeadHash(h) ==
    \/ StartHeadHash(h)
    \/ HhGetRef(h)
    \/ HhGetRootRef(h)
    \/ HhGetCommit(h)
    \/ HhGetTree(h)
    \/ HhSaveRef(h)
    \/ HhSaveCommit(h)

(***************************************************************************)
(* MonoRepo::update_refs                                                   *)
(***************************************************************************)
StartUpdateRefs(h) ==
    /\ pc[h] = "idle"
    /\ calls < MaxCalls
    /\ \E path \in PushPaths, to \in ToHashes :
         args' = [args EXCEPT ![h] = [NoArgs EXCEPT !.path = path, !.to_hash = to]]
    /\ op' = [op EXCEPT ![h] = "update_refs"]
    /\ pc' = [pc EXCEPT ![h] = "update_refs"]
    /\ pre' = IF Quiet THEN Snapshot ELSE pre
    /\ calls' = calls + 1
    /\ UNCHANGED << storeVars, next_id, unpackLocals, headLocals, refs_out,
                    last_head >>
    /\ UNCHANGED << packVars, fnVars, sinkVars >>

\* An update_refs that moves the reference as the whole-repo handler does
UpdateRefsMovesRef(h) ==
    /\ pc[h] = "update_refs"
    /\ StoreSaveRef(args[h].path, args[h].to_hash, NoHash)
    /\ pc' = [pc EXCEPT ![h] = "done"]
    /\ UNCHANGED << mega_commits, mega_mrs, mr_convs, saved_entries, next_id,
                    op, args, unpackLocals, headLocals, refs_out, pre,
                    last_head, calls >>
    /\ UNCHANGED << packVars, fnVars, sinkVars >>

\* do nothing in monorepo because need mr to handle refs
UpdateRefs(h) ==
    /\ pc[h] = "update_refs"
    /\ pc' = [pc EXCEPT ![h] = "done"]
    /\ UNCHANGED << storeVars, next_id, op, args, unpackLocals, headLocals,
                    refs_out, pre, last_head, calls >>
    /\ UNCHANGED << packVars, fnVars, sinkVars >>

(***************************************************************************)
(* The call returns (or its task died in an unwrap): the handler is free   *)
(* for the next call.                                                      *)
(***************************************************************************)
Return(h) ==
    /\ pc[h] \in {"done", "panicked", "cancelled"}
    /\ last_head' =
          IF op[h] = "head_hash" /\ pc[h] = "done"
          THEN [last_head EXCEPT ![args[h].path] =
                  IF refs_out[h] = <<>> THEN NoHash ELSE refs_out[h][1].ref_hash]
          ELSE last_head
    /\ pc' = [pc EXCEPT ![h] = "idle"]
    /\ op' = [op EXCEPT ![h] = "none"]
    /\ args' = [args EXCEPT ![h] = NoArgs]
    /\ receiver' = [receiver EXCEPT ![h] = <<>>]
    /\ mr' = [mr EXCEPT ![h] = NoMr]
    /\ mr_exist' = [mr_exist EXCEPT ![h] = FALSE]
    /\ commit_size' = [commit_size EXCEPT ![h] = 0]
    /\ comment' = [comment EXCEPT ![h] = ""]
    /\ ref_hash' = [ref_hash EXCEPT ![h] = NoHash]
    /\ tree' = [tree EXCEPT ![h] = NoHash]
    /\ walked' = [walked EXCEPT ![h] = 0]
    /\ new_commit' = [new_commit EXCEPT ![h] = NoCommit]
    /\ refs_out' = [refs_out EXCEPT ![h] = <<>>]
    /\ pre' = IF \A g \in Handlers \ {h} : pc[g] = "idle" THEN NoPre ELSE pre
    /\ UNCHANGED << storeVars, next_id, calls >>
    /\ UNCHANGED << packVars, fnVars, sinkVars >>

InitHandlers ==
    /\ mega_refs = [p \in AllPaths |->
                      IF p = RootPath
                      THEN [ref_commit_hash |-> RootCommit.id,
                            ref_tree_hash |-> RootCommit.tree_id]
                      ELSE NoRef]
    /\ mega_commits = { RootCommit } \cup PackCommits
    /\ mega_mrs = <<>>
    /\ mr_convs = <<>>
    /\ saved_entries = {}
    /\ next_id = 1
    /\ pc = [h \in Handlers |-> "idle"]
    /\ op = [h \in Handlers |-> "none"]
    /\ args = [h \in Handlers |-> NoArgs]
    /\ receiver = [h \in Handlers |-> <<>>]
    /\ mr = [h \in Handlers |-> NoMr]
    /\ mr_exist = [h \in Handlers |-> FALSE]
    /\ commit_size = [h \in Handlers |-> 0]
    /\ comment = [h \in Handlers |-> ""]
    /\ ref_hash = [h \in Handlers |-> NoHash]
    /\ tree = [h \in Handlers |-> NoHash]
    /\ walked = [h \in Handlers |-> 0]
    /\ new_commit = [h \in Handlers |-> NoCommit]
    /\ refs_out = [h \in Handlers |-> <<>>]
    /\ pre = NoPre
    /\ last_head = [p \in AllPaths |-> NoHash]
    /\ calls = 0
    /\ pk_pc = "idle"
    /\ pk_op = "none"
    /\ want = <<>>
    /\ have = <<>>
    /\ commits = <<>>
    /\ traversal_list = <<>>
    /\ want_commits = <<>>
    /\ emit_idx = 0
    /\ exist_objs = {}
    /\ channel = <<>>
    /\ sender_closed = FALSE
    /\ obj_num = 0
    /\ encoder_obj_num = 0

\* No object is being parsed
NotRun == [status |-> "none"]

InitFn ==
    /\ fn_op = "none"
    /\ fn_src = <<>>
    /\ fn_in = <<>>
    /\ fn_out = NotRun

InitSink ==
    /\ se_pc = "idle"
    /\ se_receiver = <<>>
    /\ entry_list = <<>>
    /\ save_calls = <<>>
    /\ se_commit_size = 0

Init == InitHandlers /\ InitFn /\ InitSink

Step(h) ==
    \/ Unpack(h)
    \/ HeadHash(h)
    \/ StartUpdateRefs(h)
    \/ UpdateRefs(h)
    \/ Return(h)

\* One call at a time
Next == \E h \in SeqHandlers : Step(h)

Spec == Init /\ [][Next]_vars

\* Pushes of several handlers to one path interleave at their storage calls
ConcPaths == { <<"lib">> }
StartUnpackConc(h) == StartUnpackWith(h, ConcPaths, Packs)

NextConc == \E h \in Handlers : StartUnpackConc(h) \/ UnpackSteps(h) \/ Return(h)

SpecConc == Init /\ [][NextConc]_vars

(***************************************************************************)
(* MonoRepo::incremental_pack.  Every parent id, tree id and blob id of    *)
(* the store names a stored object, so the unwrap()s of the lookups hold.  *)
(***************************************************************************)
MaxWant == 2
MaxHave == 2

PackCommitIds == { c.id : c \in PackCommits }

\* Hashes a client may send that name no stored commit; the second one
\* shares its first 6 characters with the commit B
UnknownHashes == { "cb0000ff" }

SeqsUpTo(S, n) == UNION { [1..k -> S] : k \in 0..n }

\* The orders a storage query may return a set of rows in
Orders(S) ==
    { f \in [1..Cardinality(S) -> S] : \A i, j \in DOMAIN f : f[i] = f[j] => i = j }

RECURSIVE SeqOf(_)
SeqOf(S) ==
    IF S = {} THEN <<>>
    ELSE LET x == CHOOSE y \in S : TRUE IN << x >> \o SeqOf(S \ {x})

\* storage.get_commits_by_hashes(hashes): missing hashes are simply absent
GetCommitsByHashes(hashes) == { c \in mega_commits : c.id \in Range(hashes) }

\* A have test that compares abbreviated hashes
InHaveByPrefix(hv, id) ==
    \E i \in 1..Len(hv) : SubSeq(hv[i], 1, PrefixLen) = SubSeq(id, 1, PrefixLen)

\* have.contains(p_commit_id)
InHave(hv, id) == \E i \in 1..Len(hv) : hv[i] = id

\* A parent loop without the test on want_commit_ids
RECURSIVE ExpandParentsNoVisited(_, _, _, _, _)
ExpandParentsNoVisited(parents, i, tl, wc, hv) ==
    IF i > Len(parents)
    THEN [traversal_list |-> tl, want_commits |-> wc]
    ELSE IF ~ InHave(hv, parents[i])
    THEN LET parent == CHOOSE c \in GetCommitByHash(parents[i]) : TRUE
         IN  ExpandParentsNoVisited(parents, i + 1, Append(tl, parent),
                                    Append(wc, parent), hv)
    ELSE ExpandParentsNoVisited(parents, i + 1, tl, wc, hv)

\* for p_commit_id in temp.parent_commit_ids { ... }
RECURSIVE ExpandParents(_, _, _, _, _)
ExpandParents(parents, i, tl, wc, hv) ==
    IF i > Len(parents)
    THEN [traversal_list |-> tl, want_commits |-> wc]
    ELSE IF ~ InHave(hv, parents[i])
            /\ parents[i] \notin { wc[k].id : k \in 1..Len(wc) }
    THEN LET parent == CHOOSE c \in GetCommitByHash(parents[i]) : TRUE
         IN  ExpandParents(parents, i + 1, Append(tl, parent),
                           Append(wc, parent), hv)
    ELSE ExpandParents(parents, i + 1, tl, wc, hv)

\* One turn of while let Some(temp) = traversal_list.pop()
ExpandOne(tl, wc, hv) ==
    ExpandParents(tl[Len(tl)].parent_commit_ids, 1,
                  SubSeq(tl, 1, Len(tl) - 1), wc, hv)

\* The whole while loop: the selected commits
RECURSIVE Expand(_, _, _)
Expand(tl, wc, hv) ==
    IF tl = <<>> THEN wc
    ELSE LET r == ExpandOne(tl, wc, hv)
         IN  Expand(r.traversal_list, r.want_commits, hv)

\* The tree and everything below it
RECURSIVE TreeObjs(_)
TreeObjs(tree_id) ==
    {tree_id} \cup
    UNION { IF item.mode = "40000" THEN TreeObjs(item.id) ELSE {item.id} :
            item \in Range(MegaTrees[tree_id]) }

\* add_to_exist_objs(have_tree, &mut exist_objs)
AddToExistObjs(tree_id, E) == E \cup TreeObjs(tree_id)

\* traverse_want_trees(tree, &exist_objs, sender, &obj_num): the tree, then
\* its entries in their stored order, depth first, those of exist_objs left
\* out; exist_objs is borrowed immutably and stays as it is
RECURSIVE TraverseWantTrees(_, _), TraverseItems(_, _, _)
TraverseItems(items, i, E) ==
    IF i > Len(items) THEN <<>>
    ELSE (IF items[i].id \in E THEN <<>>
          ELSE IF items[i].mode = "40000" THEN TraverseWantTrees(items[i].id, E)
          ELSE << Entry("blob", items[i].id) >>)
         \o TraverseItems(items, i + 1, E)

TraverseWantTrees(tree_id, E) ==
    << Entry("tree", tree_id) >> \o TraverseItems(MegaTrees[tree_id], 1, E)

\* A filter that takes every parent for one the client has
HaveCommitHashesAll(c, hv) == c.parent_commit_ids

\* The parents of c that the client has
HaveCommitHashes(c, hv) ==
    SelectSeq(c.parent_commit_ids, LAMBDA p : InHave(hv, p))

\* One turn of for c in want_commits: the entries sent and exist_objs after it
EmitOne(c, E, hv) ==
    LET have_commits == GetCommitsByHashes(HaveCommitHashes(c, hv))
        E2 == E \cup UNION { AddToExistObjs(hc.tree_id, {}) : hc \in have_commits }
    IN  [exist_objs |-> E2,
         out |-> TraverseWantTrees(c.tree_id, E2) \o << Entry("commit", c.id) >>]

RECURSIVE EmitAll(_, _, _, _)
EmitAll(wc, i, E, hv) ==
    IF i > Len(wc) THEN <<>>
    ELSE LET r == EmitOne(wc[i], E, hv)
         IN  r.out \o EmitAll(wc, i + 1, r.exist_objs, hv)

\* The entries incremental_pack sends when get_commits_by_hashes(want)
\* answered cs
PackOf(cs, hv) == EmitAll(Expand(cs, cs, hv), 1, {}, hv)

StartIncrementalPack ==
    /\ pk_pc = "idle"
    /\ \E w \in SeqsUpTo(PackCommitIds, MaxWant) \ { <<>> },
          hv \in SeqsUpTo(PackCommitIds \cup UnknownHashes, MaxHave) :
         /\ want' = w
         /\ have' = hv
    /\ pk_op' = "incremental_pack"
    /\ pk_pc' = "ip_get_commits"
    /\ obj_num' = 0
    /\ exist_objs' = {}
    /\ UNCHANGED << commits, traversal_list, want_commits, emit_idx, channel,
                    sender_closed, encoder_obj_num >>
    /\ UNCHANGED << storeVars, handlerVars, fnVars, sinkVars >>

\* storage.get_commits_by_hashes(&repo, want)
IpGetCommits ==
    /\ pk_pc = "ip_get_commits"
    /\ \E cs \in Orders(GetCommitsByHashes(want)) :
         /\ commits' = cs
         /\ traversal_list' = cs
         /\ want_commits' = cs
    /\ pk_pc' = "ip_expand"
    /\ UNCHANGED << pk_op, want, have, emit_idx, exist_objs, channel,
                    sender_closed, obj_num, encoder_obj_num >>
    /\ UNCHANGED << storeVars, handlerVars, fnVars, sinkVars >>

\* traversal_list.pop() and the get_commit_by_hash calls for its parents
IpExpand ==
    /\ pk_pc = "ip_expand"
    /\ traversal_list # <<>>
    /\ LET r == ExpandOne(traversal_list, want_commits, have) IN
       /\ traversal_list' = r.traversal_list
       /\ want_commits' = r.want_commits
    /\ UNCHANGED << pk_pc, pk_op, want, have, commits, emit_idx, exist_objs,
                    channel, sender_closed, obj_num, encoder_obj_num >>
    /\ UNCHANGED << storeVars, handlerVars, fnVars, sinkVars >>

\* storage.get_trees_by_hashes(&repo, want_tree_ids)
IpGetTrees ==
    /\ pk_pc = "ip_expand"
    /\ traversal_list = <<>>
    /\ pk_pc' = "ip_emit"
    /\ emit_idx' = 1
    /\ UNCHANGED << pk_op, want, have, commits, traversal_list, want_commits,
                    exist_objs, channel, sender_closed, obj_num,
                    encoder_obj_num >>
    /\ UNCHANGED << storeVars, handlerVars, fnVars, sinkVars >>

\* One turn of for c in want_commits
IpEmit ==
    /\ pk_pc = "ip_emit"
    /\ emit_idx <= Len(want_commits)
    /\ LET r == EmitOne(want_commits[emit_idx], exist_objs, have) IN
       /\ exist_objs' = r.exist_objs
       /\ channel' = channel \o r.out
       /\ obj_num' = obj_num + Len(r.out)
    /\ emit_idx' = emit_idx + 1
    /\ UNCHANGED << pk_pc, pk_op, want, have, commits, traversal_list,
                    want_commits, sender_closed, encoder_obj_num >>
    /\ UNCHANGED << storeVars, handlerVars, fnVars, sinkVars >>

\* drop(sender), PackEncoder::new(obj_num.into_inner(), 0) and encode
IpEncode ==
    /\ pk_pc = "ip_emit"
    /\ emit_idx > Len(want_commits)
    /\ sender_closed' = TRUE
    /\ encoder_obj_num' = obj_num
    /\ pk_pc' = "done"
    /\ UNCHANGED << pk_op, want, have, commits, traversal_list, want_commits,
                    emit_idx, exist_objs, channel, obj_num >>
    /\ UNCHANGED << storeVars, handlerVars, fnVars, sinkVars >>

IncrementalPack ==
    \/ StartIncrementalPack
    \/ IpGetCommits
    \/ IpExpand
    \/ IpGetTrees
    \/ IpEmit
    \/ IpEncode

(***************************************************************************)
(* MonoRepo::full_pack                                                     *)
(***************************************************************************)
\* The raw_blob rows: the blobs of every stored tree
RepoBlobs ==
    UNION { { item.id : item \in { x \in Range(MegaTrees[t]) : x.mode # "40000" } } :
            t \in DOMAIN MegaTrees }

EntriesOf(kind, hashes) == [ i \in 1..Len(hashes) |-> Entry(kind, hashes[i]) ]

\* A full_pack that sends the blobs before the trees
FpAfterBlobsFirst(stage) ==
    CASE stage = "fp_start" -> "fp_commits"
      [] stage = "fp_commits" -> "fp_blobs"
      [] stage = "fp_blobs" -> "fp_trees"
      [] stage = "fp_trees" -> "fp_tags"
      [] stage = "fp_tags" -> "fp_encode"

\* The order of the loops of full_pack
FpAfter(stage) ==
    CASE stage = "fp_start" -> "fp_commits"
      [] stage = "fp_commits" -> "fp_trees"
      [] stage = "fp_trees" -> "fp_blobs"
      [] stage = "fp_blobs" -> "fp_tags"
      [] stage = "fp_tags" -> "fp_encode"

\* let mut obj_num = 0; let mut encoder = PackEncoder::new(obj_num, 0)
StartFullPack ==
    /\ pk_pc = "idle"
    /\ pk_op' = "full_pack"
    /\ obj_num' = 0
    /\ encoder_obj_num' = 0
    /\ pk_pc' = FpAfter("fp_start")
    /\ UNCHANGED << want, have, commits, traversal_list, want_commits,
                    emit_idx, exist_objs, channel, sender_closed >>
    /\ UNCHANGED << storeVars, handlerVars, fnVars, sinkVars >>

\* One loop of full_pack: the rows of a table sent as entries, each counted
\* in the local obj_num
FpSend(stage, kind, rows) ==
    /\ channel' = channel \o EntriesOf(kind, SeqOf(rows))
    /\ obj_num' = obj_num + Cardinality(rows)
    /\ pk_pc' = FpAfter(stage)
    /\ UNCHANGED << pk_op, want, have, commits, traversal_list, want_commits,
                    emit_idx, exist_objs, sender_closed, encoder_obj_num >>
    /\ UNCHANGED << storeVars, handlerVars, fnVars, sinkVars >>

\* storage.get_commits_by_repo_id(repo)
FpCommits ==
    /\ pk_pc = "fp_commits"
    /\ FpSend("fp_commits", "commit", { c.id : c \in mega_commits })

\* storage.get_trees_by_repo_id(repo)
FpTrees ==
    /\ pk_pc = "fp_trees"
    /\ FpSend("fp_trees", "tree", DOMAIN MegaTrees)

\* storage.get_blobs_by_repo_id(repo) and the batch query of the raw blobs
FpBlobs ==
    /\ pk_pc = "fp_blobs"
    /\ FpSend("fp_blobs", "blob", RepoBlobs)

\* storage.get_tags_by_repo_id(repo)
FpTags ==
    /\ pk_pc = "fp_tags"
    /\ FpSend("fp_tags", "tag", PackTags)

\* drop(sender) and encoder.encode(receiver)
FpEncode ==
    /\ pk_pc = "fp_encode"
    /\ sender_closed' = TRUE
    /\ pk_pc' = "done"
    /\ UNCHANGED << pk_op, want, have, commits, traversal_list, want_commits,
                    emit_idx, exist_objs, channel, obj_num, encoder_obj_num >>
    /\ UNCHANGED << storeVars, handlerVars, fnVars, sinkVars >>

FullPack ==
    \/ StartFullPack
    \/ FpCommits
    \/ FpTrees
    \/ FpBlobs
    \/ FpTags
    \/ FpEncode

\* One fetch: a full pack or an incremental pack
NextPack == FullPack \/ IncrementalPack

SpecPack == Init /\ [][NextPack]_vars

(***************************************************************************)
(* Properties                                                              *)
(***************************************************************************)
CommentsOf(convs, id) == SelectSeq(convs, LAMBDA c : c.mr_id = id)

Contains(s, sub) ==
    \E i \in 1..(Len(s) - Len(sub) + 1) : SubSeq(s, i, i + Len(sub) - 1) = sub

\* The open merge requests of a path when the running call started
PreOpen(path) ==
    { id \in DOMAIN pre.mrs :
        pre.mrs[id].path = path /\ pre.mrs[id].status = "open" }

\* The case of section 4.5.2 a push is in, told from the storage it started on
PushCase(h) ==
    IF PreOpen(args[h].path) = {} THEN "new"
    ELSE IF \E id \in PreOpen(args[h].path) :
                pre.mrs[id].from_hash # args[h].from_hash THEN "conflict"
    ELSE IF \E id \in PreOpen(args[h].path) :
                pre.mrs[id].to_hash # args[h].to_hash THEN "update"
    ELSE "same"

PushDone(h) == op[h] = "unpack" /\ pc[h] = "done"

\* C1: in any interleaving of pushes, every path has at most one merge
\* request in state Open.
AtMostOneOpenMr ==
    \A path \in PushPaths : Cardinality(GetOpenMr(path)) <= 1

\* C2: once a push whose pack holds more than one commit has persisted its
\* entries and returned, its merge request is stored as Closed and has the
\* multi commit comment.
MultiCommitPushClosesMr ==
    \A h \in Handlers :
        (PushDone(h) /\ CommitCount(args[h].pack) > 1
            /\ PushCase(h) \in {"new", "update"})
        => /\ mr[h].id \in DOMAIN mega_mrs
           /\ mega_mrs[mr[h].id].status = "closed"
           /\ \E i \in 1..Len(mr_convs) :
                /\ mr_convs[i].mr_id = mr[h].id
                /\ Contains(mr_convs[i].text, "multi commit")

\* C3: a push whose from_hash differs from that of the path's Open merge
\* request leaves it Closed, with the conflict comment as its one new
\* comment, with its from_hash and to_hash kept, and persists no entry.
ConflictPushClosesMr ==
    \A h \in Handlers :
        (PushDone(h) /\ PushCase(h) = "conflict")
        => /\ saved_entries = pre.entries
           /\ \A id \in PreOpen(args[h].path) :
                /\ mega_mrs[id].status = "closed"
                /\ mega_mrs[id].from_hash = pre.mrs[id].from_hash
                /\ mega_mrs[id].to_hash = pre.mrs[id].to_hash
                /\ CommentsOf(mr_convs, id) =
                     Append(CommentsOf(pre.convs, id),
                            [mr_id |-> id, user_id |-> 0, text |-> ConflictComment])
                /\ Contains(ConflictComment, "conflict")

ConflictPushWitness ==
    \E h \in Handlers :
        /\ PushDone(h)
        /\ PushCase(h) = "conflict"
        /\ ~ (Range(args[h].pack) \subseteq saved_entries)

\* C4: a push of at most one commit with the from_hash of the path's Open
\* merge request and another to_hash leaves the merge request Open with the
\* push's to_hash and exactly one new comment, and persists every entry.
ForceUpdatePushMovesTo ==
    \A h \in Handlers :
        (PushDone(h) /\ PushCase(h) = "update" /\ CommitCount(args[h].pack) <= 1)
        => /\ Range(args[h].pack) \subseteq saved_entries
           /\ \A id \in PreOpen(args[h].path) :
                /\ mega_mrs[id].to_hash = args[h].to_hash
                /\ mega_mrs[id].status = "open"
                /\ Len(CommentsOf(mr_convs, id)) =
                     Len(CommentsOf(pre.convs, id)) + 1

ForceUpdatePushWitness ==
    \E h \in Handlers :
        /\ PushDone(h)
        /\ PushCase(h) = "update"
        /\ CommitCount(args[h].pack) <= 1
        /\ ~ (Range(args[h].pack) \subseteq pre.entries)

\* The push has recorded the comment of its force update and nothing since
JustCommentedUpdate(h) ==
    op[h] = "unpack" /\ pc[h] = "save_entry_update" /\ PushCase(h) = "update"

\* C5 as stated: the comment recorded by a force update names the first 6
\* characters of the merge request's from_hash and of the new to_hash.
ForceUpdateCommentNamesFrom ==
    \A h \in Handlers :
        JustCommentedUpdate(h)
        => \A id \in PreOpen(args[h].path) :
             LET text == mr_convs[Len(mr_convs)].text IN
             /\ Contains(text, SubSeq(pre.mrs[id].from_hash, 1, 6))
             /\ Contains(text, SubSeq(args[h].to_hash, 1, 6))

\* C5 amended: the comment recorded by a force update names the first 6
\* characters of the to_hash the merge request had before the push, then the
\* first 6 characters of the new to_hash.
ForceUpdateCommentNamesOldTo ==
    \A h \in Handlers :
        JustCommentedUpdate(h)
        => \A id \in PreOpen(args[h].path) :
             mr_convs[Len(mr_convs)] =
                [mr_id |-> id, user_id |-> 0,
                 text |-> "Mega updated the mr automatic from "
                            \o SubSeq(pre.mrs[id].to_hash, 1, 6) \o " to "
                            \o SubSeq(args[h].to_hash, 1, 6)]

ForceUpdateCommentWitness ==
    \E h \in Handlers :
        /\ JustCommentedUpdate(h)
        /\ \E id \in PreOpen(args[h].path) :
             SubSeq(pre.mrs[id].from_hash, 1, 6) # SubSeq(pre.mrs[id].to_hash, 1, 6)

\* The merge requests of a path written since the running call started
NewMrs(path) ==
    { id \in DOMAIN mega_mrs \ DOMAIN pre.mrs : mega_mrs[id].path = path }

\* C6: a push of a single commit to a path without an Open merge request
\* persists every entry of the pack and stores an Open merge request with the
\* push's from_hash and to_hash; the entries are persisted before it is saved.
NewPushOpensMr ==
    \A h \in Handlers :
        (op[h] = "unpack" /\ PushCase(h) = "new" /\ CommitCount(args[h].pack) = 1)
        => /\ NewMrs(args[h].path) # {}
                => Range(args[h].pack) \subseteq saved_entries
           /\ pc[h] = "done"
                => /\ Range(args[h].pack) \subseteq saved_entries
                   /\ \E id \in NewMrs(args[h].path) :
                        /\ GetOpenMr(args[h].path) = {id}
                        /\ mega_mrs[id].from_hash = args[h].from_hash
                        /\ mega_mrs[id].to_hash = args[h].to_hash

NewPushWitness ==
    \E h \in Handlers :
        /\ PushDone(h)
        /\ PushCase(h) = "new"
        /\ CommitCount(args[h].pack) = 1
        /\ ~ (Range(args[h].pack) \subseteq pre.entries)

\* C7: once a merge request is stored as Closed, no later write of any push
\* stores it as Open again.
ClosedStaysClosed ==
    [][ \A id \in DOMAIN mega_mrs :
            mega_mrs[id].status = "closed" => mega_mrs'[id].status = "closed" ]_vars

\* C8: while unpack or update_refs runs, and when it has returned, every
\* path's stored reference is what it was when the call started.
PushKeepsRefs ==
    \A h \in Handlers :
        (op[h] \in {"unpack", "update_refs"} /\ pc[h] # "idle")
        => mega_refs = pre.refs

PushKeepsRefsWitness ==
    \E h \in Handlers :
        /\ op[h] \in {"unpack", "update_refs"}
        /\ pc[h] = "done"
        /\ mega_refs[args[h].path] # NoRef

\* C9: no write changes the from_hash (or the id or the path) of a stored
\* merge request, in any interleaving of pushes.
FromHashNeverChanges ==
    [][ \A id \in DOMAIN mega_mrs :
            /\ id \in DOMAIN mega_mrs'
            /\ mega_mrs'[id].id = mega_mrs[id].id
            /\ mega_mrs'[id].path = mega_mrs[id].path
            /\ mega_mrs'[id].from_hash = mega_mrs[id].from_hash ]_vars

FromHashWitness ==
    \E id \in DOMAIN mega_mrs :
        /\ mega_mrs[id].status = "closed"
        /\ Len(CommentsOf(mr_convs, id)) >= 2

\* C10: a head_hash call for a path for which an earlier head_hash call
\* advertised a hash returns the stored reference as its only ref, with that
\* same hash, and writes no reference and no commit.
HeadHashIdempotent ==
    \A h \in Handlers :
        (op[h] = "head_hash" /\ pc[h] = "done"
            /\ last_head[args[h].path] # NoHash)
        => /\ refs_out[h] = << RefsFromModel(pre.refs[args[h].path]) >>
           /\ refs_out[h][1].ref_hash = last_head[args[h].path]
           /\ mega_refs = pre.refs
           /\ mega_commits = pre.commits

HeadHashIdempotentWitness ==
    \E h \in Handlers :
        /\ op[h] = "head_hash"
        /\ pc[h] = "done"
        /\ args[h].path = <<"lib", "a">>
        /\ last_head[args[h].path] # NoHash
        /\ \E c \in mega_commits :
             /\ c.id = last_head[args[h].path]
             /\ c.tree_id = "e0000003"
             /\ c.parent_commit_ids = <<>>

\* The tree a path leads to from the root tree of the store: its id,
\* "missing" when a component names no item of the tree reached so far,
\* "absent" when a component names an item whose id is no stored tree
RECURSIVE WalkFrom(_, _, _)
WalkFrom(tree_id, path, i) ==
    IF i > Len(path) THEN tree_id
    ELSE LET items == MegaTrees[tree_id]
             hits == { k \in 1..Len(items) : items[k].name = path[i] }
         IN  IF hits = {} THEN "missing"
             ELSE LET id == items[CHOOSE k \in hits : \A j \in hits : k <= j].id
                  IN  IF id \in DOMAIN MegaTrees
                      THEN WalkFrom(id, path, i + 1)
                      ELSE "absent"

Walked(path) == WalkFrom(RootCommit.tree_id, path, 1)

\* A head_hash call for a path that had no stored reference when it started
HeadOfFreshPath(h) ==
    op[h] = "head_hash" /\ pc[h] # "idle" /\ pre.refs[args[h].path] = NoRef

\* C11: head_hash for a path without a stored reference that can be walked
\* persists a commit without parents on the subtree the walk reaches, stores
\* a reference to that commit and that tree, and returns one ref with that
\* commit's hash and default_branch = true.
HeadHashSynthesizes ==
    \A h \in Handlers :
        (HeadOfFreshPath(h) /\ pc[h] = "done"
            /\ Walked(args[h].path) \notin {"missing", "absent"})
        => \E c \in mega_commits :
             /\ c.tree_id = Walked(args[h].path)
             /\ c.parent_commit_ids = <<>>
             /\ c.message = SyntheticMessage
             /\ mega_refs[args[h].path] =
                  [ref_commit_hash |-> c.id, ref_tree_hash |-> c.tree_id]
             /\ Len(refs_out[h]) = 1
             /\ refs_out[h][1].ref_hash = c.id
             /\ refs_out[h][1].default_branch = TRUE

HeadHashSynthesizesWitness ==
    \E h \in Handlers :
        /\ HeadOfFreshPath(h)
        /\ pc[h] = "done"
        /\ args[h].path = <<"lib", "a">>
        /\ Walked(args[h].path) = "e0000003"

\* C12: head_hash for a path without a stored reference, one of whose
\* components names no entry of the tree reached so far, returns the empty
\* ref set and writes no reference and no commit.
HeadHashUnknownPath ==
    \A h \in Handlers :
        (HeadOfFreshPath(h) /\ Walked(args[h].path) = "missing")
        => /\ pc[h] \notin {"panicked", "hh_save_ref", "hh_save_commit"}
           /\ mega_refs = pre.refs
           /\ mega_commits = pre.commits
           /\ pc[h] = "done" => refs_out[h] = <<>>

HeadHashUnknownPathWitness ==
    \E h \in Handlers :
        /\ HeadOfFreshPath(h)
        /\ pc[h] = "done"
        /\ args[h].path = <<"nope">>
        /\ Walked(args[h].path) = "missing"

\* C13: head_hash for a path without a stored reference never fails: when
\* the root reference, the root commit or a tree of the walk is absent it
\* ends with the empty ref set and has written nothing.
HeadHashNeverFails ==
    \A h \in Handlers :
        HeadOfFreshPath(h)
        => /\ pc[h] # "panicked"
           /\ (pc[h] = "done" /\ Walked(args[h].path) = "absent")
                => /\ refs_out[h] = <<>>
                   /\ mega_refs = pre.refs
                   /\ mega_commits = pre.commits

\* C14: in every state the commit a stored reference targets is in the
\* commit table.
RefTargetsStoredCommit ==
    \A p \in AllPaths :
        mega_refs[p] # NoRef
        => \E c \in mega_commits : c.id = mega_refs[p].ref_commit_hash

(***************************************************************************)
(* Properties of incremental_pack and full_pack                            *)
(***************************************************************************)
\* The commits reachable from the hashes of hs along parent edges
RECURSIVE ReachableFrom(_, _)
ReachableFrom(frontier, seen) ==
    LET stored == { id \in frontier : GetCommitByHash(id) # {} } \ seen
    IN  IF stored = {} THEN seen
        ELSE ReachableFrom(
                 UNION { Range(c.parent_commit_ids) :
                         c \in { x \in mega_commits : x.id \in stored } },
                 seen \cup stored)

Reachable(hs) == ReachableFrom(Range(hs), {})

\* The hashes of the entries of one kind in the channel
Emitted(kind) ==
    { channel[i].hash : i \in { k \in 1..Len(channel) : channel[k].obj_type = kind } }

IncrementalDone == pk_op = "incremental_pack" /\ pk_pc = "done"

AllStored(hs) == \A i \in 1..Len(hs) : GetCommitByHash(hs[i]) # {}

\* C15: when every want and have hash names a stored commit, the commits
\* incremental_pack has emitted are exactly those reachable from want that
\* are not reachable from have.
EmitsWantMinusHave ==
    (IncrementalDone /\ AllStored(want) /\ AllStored(have))
        => Emitted("commit") = Reachable(want) \ Reachable(have)

\* The trees and blobs reachable from the trees of the stored have commits
HaveObjs ==
    UNION { TreeObjs(c.tree_id) : c \in { x \in mega_commits : InHave(have, x.id) } }

\* C16: incremental_pack emits no tree and no blob that is reachable from
\* the tree of a have commit.
EmitsNothingOfHave ==
    pk_op = "incremental_pack"
        => (Emitted("tree") \cup Emitted("blob")) \cap HaveObjs = {}

\* C17: in the entry sequence of incremental_pack no tree hash and no blob
\* hash occurs twice.
EmitsEachObjectOnce ==
    pk_op = "incremental_pack"
        => \A i, j \in 1..Len(channel) :
               (/\ i # j
                /\ channel[i].obj_type \in {"tree", "blob"}
                /\ channel[i].obj_type = channel[j].obj_type)
               => channel[i].hash # channel[j].hash

FullDone == pk_op = "full_pack" /\ pk_pc = "done"

\* C18: the object count full_pack hands to the encoder equals the number
\* of entries it enqueued, the commits, trees, blobs and tags of the store.
FullPackDeclaresCount ==
    FullDone
        => /\ encoder_obj_num = Len(channel)
           /\ Len(channel) = Cardinality(mega_commits)
                             + Cardinality(DOMAIN MegaTrees)
                             + Cardinality(RepoBlobs) + Cardinality(PackTags)

Rank(kind) ==
    CASE kind = "commit" -> 1
      [] kind = "tree" -> 2
      [] kind = "blob" -> 3
      [] kind = "tag" -> 4

\* C19: in the entry sequence of full_pack no tree precedes a commit, no
\* blob precedes a tree and no tag precedes a blob, and when the channel is
\* closed every commit, tree, blob and tag of the store has been sent.
FullPackOrder ==
    pk_op = "full_pack"
        => /\ \A i, j \in 1..Len(channel) :
                  i < j => Rank(channel[i].obj_type) <= Rank(channel[j].obj_type)
           /\ sender_closed
                => /\ Emitted("commit") = { c.id : c \in mega_commits }
                   /\ Emitted("tree") = DOMAIN MegaTrees
                   /\ Emitted("blob") = RepoBlobs
                   /\ Emitted("tag") = PackTags
                   /\ channel[Len(channel)].obj_type = "tag"

FullPackOrderWitness ==
    /\ FullDone
    /\ sender_closed
    /\ \A kind \in {"commit", "tree", "blob", "tag"} : Emitted(kind) # {}

\* The have hashes that name a stored commit
StoredOnly(hs) == SelectSeq(hs, LAMBDA x : GetCommitByHash(x) # {})

\* C20: a have hash that names no stored commit is ignored: the entries
\* incremental_pack has sent for want and have are those it sends for want
\* and the have list without such hashes.
UnknownHaveIgnored ==
    IncrementalDone => channel = PackOf(commits, StoredOnly(have))

UnknownHaveIgnoredWitness ==
    /\ IncrementalDone
    /\ StoredOnly(have) # have
    /\ StoredOnly(have) # <<>>
    /\ channel # <<>>
    /\ channel # PackOf(commits, <<>>)

(***************************************************************************)
(* Tree objects (git/internal/object/tree.rs).  Bytes are the numbers      *)
(* 0..255, a byte string is a sequence of them, and a String is the        *)
(* sequence of its UTF-8 bytes.  An outcome is a record whose status is    *)
(* "ok" (with a value), "err" (an Err(GitError) was returned) or "panic".  *)
(***************************************************************************)
NUL == 0
SP == 32
HashLen == 20

Ok(v) == [status |-> "ok", value |-> v]
Err(e) == [status |-> "err", value |-> e]
Panic == [status |-> "panic", value |-> "panic"]

\* bytes.find_byte(b): the 0-based position of the first b, -1 for None
FindByte(bytes, b) ==
    IF \E i \in 1..Len(bytes) : bytes[i] = b
    THEN (CHOOSE i \in 1..Len(bytes) :
              /\ bytes[i] = b
              /\ \A j \in 1..(i - 1) : bytes[j] # b) - 1
    ELSE -1

\* bytes.splitn(2, |x| *x == b): one part when b does not occur, else two
Splitn2(bytes, b) ==
    LET at == FindByte(bytes, b) IN
    IF at = -1 THEN << bytes >>
    ELSE << SubSeq(bytes, 1, at), SubSeq(bytes, at + 2, Len(bytes)) >>

Cont(x) == x >= 128 /\ x <= 191

\* String::from_utf8(bytes).is_ok(): the well-formed UTF-8 byte sequences
RECURSIVE IsUtf8(_)
IsUtf8(bytes) ==
    LET n == Len(bytes)
        b1 == bytes[1]
        Rest(k) == SubSeq(bytes, k + 1, n)
    IN  IF n = 0 THEN TRUE
        ELSE IF b1 < 128 THEN IsUtf8(Rest(1))
        ELSE IF b1 >= 194 /\ b1 <= 223
        THEN n >= 2 /\ Cont(bytes[2]) /\ IsUtf8(Rest(2))
        ELSE IF b1 >= 224 /\ b1 <= 239
        THEN /\ n >= 3
             /\ Cont(bytes[2])
             /\ Cont(bytes[3])
             /\ (b1 = 224 => bytes[2] >= 160)
             /\ (b1 = 237 => bytes[2] <= 159)
             /\ IsUtf8(Rest(3))
        ELSE IF b1 >= 240 /\ b1 <= 244
        THEN /\ n >= 4
             /\ Cont(bytes[2])
             /\ Cont(bytes[3])
             /\ Cont(bytes[4])
             /\ (b1 = 240 => bytes[2] >= 144)
             /\ (b1 = 244 => bytes[2] <= 143)
             /\ IsUtf8(Rest(4))
        ELSE FALSE

\* The mode tokens
Token40000 == << 52, 48, 48, 48, 48 >>
Token100644 == << 49, 48, 48, 54, 52, 52 >>
Token100755 == << 49, 48, 48, 55, 53, 53 >>
Token120000 == << 49, 50, 48, 48, 48, 48 >>
Token160000 == << 49, 54, 48, 48, 48, 48 >>
Token100664 == << 49, 48, 48, 54, 54, 52 >>
Token100640 == << 49, 48, 48, 54, 52, 48 >>
Token040000 == << 48, 52, 48, 48, 48, 48 >>

TreeItemModes == { "Blob", "BlobExecutable", "Tree", "Commit", "Link" }

\* TreeItemMode::to_bytes
ModeToBytes(mode) ==
    CASE mode = "Blob" -> Token100644
      [] mode = "BlobExecutable" -> Token100755
      [] mode = "Link" -> Token120000
      [] mode = "Tree" -> Token40000
      [] mode = "Commit" -> Token160000

\* TreeItemMode::tree_item_type_from; the error value is built with
\* String::from_utf8(mode.to_vec()).unwrap()
tree_item_type_from(mode) ==
    CASE mode = Token40000 -> Ok("Tree")
      [] mode = Token100644 -> Ok("Blob")
      [] mode = Token100755 -> Ok("BlobExecutable")
      [] mode = Token120000 -> Ok("Link")
      [] mode = Token160000 -> Ok("Commit")
      [] mode = Token100664 -> Ok("Blob")
      [] mode = Token100640 -> Ok("Blob")
      [] OTHER -> IF IsUtf8(mode) THEN Err("InvalidTreeItem") ELSE Panic

\* Hash::from_bytes: a hash is 20 bytes
HashFromBytes(id) == IF Len(id) = HashLen THEN Ok(id) ELSE Panic

\* A tree entry as tree.rs holds it; name is the String's bytes
ParsedItem(mode, id, name) == [mode |-> mode, id |-> id, name |-> name]

\* A new_from_bytes that takes the name up to the first space
TreeItemNewFromBytesNameSplit(bytes) ==
    LET parts == Splitn2(bytes, SP)
        rest == parts[2]
        more == Splitn2(rest, NUL)
        name == Splitn2(more[1], SP)[1]
        mode == tree_item_type_from(parts[1])
        id == HashFromBytes(more[2])
    IN  IF Len(parts) < 2 THEN Panic
        ELSE IF Len(more) < 2 THEN Panic
        ELSE IF mode.status # "ok" THEN mode
        ELSE IF id.status # "ok" THEN id
        ELSE IF ~ IsUtf8(name) THEN Err("ConversionError")
        ELSE Ok(ParsedItem(mode.value, id.value, name))

\* TreeItem::new_from_bytes
TreeItemNewFromBytes(bytes) ==
    LET parts == Splitn2(bytes, SP)
        rest == parts[2]
        more == Splitn2(rest, NUL)
        name == more[1]
        mode == tree_item_type_from(parts[1])
        id == HashFromBytes(more[2])
    IN  IF Len(parts) < 2 THEN Panic
        ELSE IF Len(more) < 2 THEN Panic
        ELSE IF mode.status # "ok" THEN mode
        ELSE IF id.status # "ok" THEN id
        ELSE IF ~ IsUtf8(name) THEN Err("ConversionError")
        ELSE Ok(ParsedItem(mode.value, id.value, name))

\* TreeItem::to_bytes
TreeItemToBytes(item) ==
    ModeToBytes(item.mode) \o << SP >> \o item.name \o << NUL >> \o item.id

\* The while loop of Tree::new_from_meta from position i on; meta.size is
\* the length of meta.data
RECURSIVE ParseTreeFrom(_, _, _)
ParseTreeFrom(data, i, tree_items) ==
    IF ~ (i < Len(data)) THEN Ok(tree_items)
    ELSE LET index == FindByte(SubSeq(data, i + 1, Len(data)), NUL)
             next == i + index + 21
             item == TreeItemNewFromBytes(SubSeq(data, i + 1, next))
         IN  IF index = -1 THEN Panic
             ELSE IF next > Len(data) THEN Panic
             ELSE IF item.status # "ok" THEN item
             ELSE ParseTreeFrom(data, next, Append(tree_items, item.value))

\* Tree::new_from_meta
TreeNewFromMeta(data) == ParseTreeFrom(data, 0, <<>>)

(***************************************************************************)
(* Signatures (git/internal/object/signature.rs)                           *)
(***************************************************************************)
LT == 60
GT == 62
PLUS == 43
Digit0 == 48
Digit9 == 57

AuthorBytes == << 97, 117, 116, 104, 111, 114 >>
CommitterBytes == << 99, 111, 109, 109, 105, 116, 116, 101, 114 >>

\* bytes[a..b] of Rust, 0-based and half open; it panics unless a <= b <= len
SliceOk(bytes, a, b) == 0 <= a /\ a <= b /\ b <= Len(bytes)
Slice(bytes, a, b) == SubSeq(bytes, a + 1, b)

\* SignatureType::from_data
SignatureTypeFromData(data) ==
    IF ~ IsUtf8(data) THEN Err("ConversionError")
    ELSE IF data = AuthorBytes THEN Ok("Author")
    ELSE IF data = CommitterBytes THEN Ok("Committer")
    ELSE Err("InvalidSignatureType")

\* SignatureType::to_bytes
SignatureTypeToBytes(t) == IF t = "Author" THEN AuthorBytes ELSE CommitterBytes

\* The value of a string of decimal digits
RECURSIVE DigitsValue(_)
DigitsValue(digits) ==
    IF digits = <<>> THEN 0
    ELSE 10 * DigitsValue(SubSeq(digits, 1, Len(digits) - 1))
         + (digits[Len(digits)] - Digit0)

\* str::parse::<usize>: an optional '+' and at least one decimal digit;
\* -1 stands for Err(ParseIntError)
ParseUsize(bytes) ==
    LET digits == IF bytes # <<>> /\ bytes[1] = PLUS
                  THEN SubSeq(bytes, 2, Len(bytes)) ELSE bytes
    IN  IF /\ digits # <<>>
           /\ \A i \in 1..Len(digits) : digits[i] >= Digit0 /\ digits[i] <= Digit9
        THEN DigitsValue(digits)
        ELSE -1

\* usize::to_string
RECURSIVE UsizeToString(_)
UsizeToString(n) ==
    IF n < 10 THEN << Digit0 + n >>
    ELSE UsizeToString(n \div 10) \o << Digit0 + (n % 10) >>

SignatureOf(t, name, email, timestamp, timezone) ==
    [signature_type |-> t, name |-> name, email |-> email,
     timestamp |-> timestamp, timezone |-> timezone]

\* The second half of new_from_data, on sign[email_end + 2..]
SignatureTail(t, name, email, sign) ==
    LET timestamp_split == FindByte(sign, SP)
        timestamp == ParseUsize(Slice(sign, 0, timestamp_split))
    IN  IF timestamp_split = -1 THEN Panic
        ELSE IF ~ IsUtf8(Slice(sign, 0, timestamp_split)) THEN Panic
        ELSE IF timestamp = -1 THEN Panic
        ELSE IF ~ IsUtf8(Slice(sign, timestamp_split + 1, Len(sign))) THEN Panic
        ELSE Ok(SignatureOf(t, name, email, timestamp,
                            Slice(sign, timestamp_split + 1, Len(sign))))

\* Signature::new_from_data; every failure is an unwrap() or a slice index
SignatureNewFromData(data) ==
    LET name_start == FindByte(data, SP)
        t == SignatureTypeFromData(Slice(data, 0, name_start))
        email_start == FindByte(data, LT)
        email_end == FindByte(data, GT)
        name == Slice(data, name_start + 1, email_start - 1)
        email == Slice(data, email_start + 1, email_end)
    IN  IF name_start = -1 THEN Panic
        ELSE IF t.status # "ok" THEN Panic
        ELSE IF email_start = -1 \/ email_end = -1 THEN Panic
        ELSE IF ~ SliceOk(data, name_start + 1, email_start - 1) THEN Panic
        ELSE IF ~ IsUtf8(name) THEN Panic
        ELSE IF ~ SliceOk(data, email_start + 1, email_end) THEN Panic
        ELSE IF ~ IsUtf8(email) THEN Panic
        ELSE IF ~ SliceOk(data, email_end + 2, Len(data)) THEN Panic
        ELSE SignatureTail(t.value, name, email,
                           Slice(data, email_end + 2, Len(data)))

\* Signature::to_data
SignatureToData(sig) ==
    SignatureTypeToBytes(sig.signature_type) \o << SP >> \o sig.name
    \o << SP, LT >> \o sig.email \o << GT, SP >>
    \o UsizeToString(sig.timestamp) \o << SP >> \o sig.timezone

(***************************************************************************)
(* The parsers applied to inputs: tree data serialized from entries, raw   *)
(* entries, mode tokens and signature lines, well formed and malformed.    *)
(***************************************************************************)
MaxItems == 2
MaxDigits == 2

\* The names "a b" and "b"
ItemNames == { << 97, SP, 98 >>, << 98 >> }

\* Ids made of 0x00 bytes, of 0x20 bytes, and of 0xAB and 0x00 in turn
ItemIds ==
    { [i \in 1..HashLen |-> NUL], [i \in 1..HashLen |-> SP],
      [i \in 1..HashLen |-> IF i % 2 = 1 THEN 171 ELSE NUL] }

Items == { ParsedItem(m, id, n) : m \in TreeItemModes, id \in ItemIds, n \in ItemNames }

RECURSIVE EncodeTree(_)
EncodeTree(items) ==
    IF items = <<>> THEN <<>>
    ELSE TreeItemToBytes(Head(items)) \o EncodeTree(Tail(items))

AcceptedTokens ==
    { Token40000, Token100644, Token100755, Token120000, Token160000,
      Token100664, Token100640 }

\* Besides the accepted tokens: 040000, the empty string, 100645, a token
\* followed by a space, and two strings that are not UTF-8
ModeInputs ==
    AcceptedTokens \cup
    { Token040000, <<>>, << 49, 48, 48, 54, 52, 53 >>, Token100644 \o << SP >>,
      << 255 >>, Token100644 \o << 255 >> }

RawEntry(token, name, id) == token \o << SP >> \o name \o << NUL >> \o id

\* Entries as a peer may have written them
RawEntries ==
    { RawEntry(t, n, id) : t \in AcceptedTokens \cup { Token040000 },
                           n \in ItemNames, id \in ItemIds }

\* An entry without NUL, one cut short in its id, one without the space
MalformedEntries ==
    UNION { { ModeToBytes(it.mode) \o << SP >> \o it.name,
              SubSeq(TreeItemToBytes(it), 1, Len(TreeItemToBytes(it)) - 1),
              ModeToBytes(it.mode) \o it.name \o << NUL >> \o it.id } :
            it \in { x \in Items : x.name = << 98 >> /\ x.mode \in {"Blob", "Tree"} } }

\* Malformed tree data: a malformed entry, alone or after a good entry
MalformedTrees ==
    { EncodeTree(good) \o bad :
        good \in SeqsUpTo({ x \in Items : x.mode = "Blob" /\ x.name = << 98 >> }, 1),
        bad \in MalformedEntries }

\* Timestamps as strings of the digits 0 and 7
TimestampStrings == UNION { [1..k -> { Digit0, Digit0 + 7 }] : k \in 1..MaxDigits }

\* "Q M" and "Q"
SigNames == { << 81, SP, 77 >>, << 81 >> }
\* "e@p" and the empty address
SigEmails == { << 101, 64, 112 >>, <<>> }
\* "+0800" and "+0000"
SigZones == { << PLUS, 48, 56, 48, 48 >>, << PLUS, 48, 48, 48, 48 >> }

SignatureHead(t, name, email, ts) ==
    t \o << SP >> \o name \o << SP, LT >> \o email \o << GT, SP >> \o ts

SignatureLine(t, name, email, ts, tz) ==
    SignatureHead(t, name, email, ts) \o << SP >> \o tz

\* The fields of the lines
\* `<author|committer> <name> <<email>> <decimal seconds> <timezone>`
WellFormedFields ==
    { << t, n, e, ts, tz >> :
        t \in { AuthorBytes, CommitterBytes }, n \in SigNames, e \in SigEmails,
        ts \in TimestampStrings, tz \in SigZones }

\* The fields of the lines that end after the timestamp
FieldsWithoutZone ==
    { << t, n, e, ts >> :
        t \in { AuthorBytes, CommitterBytes }, n \in SigNames, e \in SigEmails,
        ts \in TimestampStrings }

InitObjects ==
    /\ InitHandlers
    /\ InitSink
    /\ fn_out = NotRun
    /\ \/ /\ fn_op = "Tree::new_from_meta"
          /\ fn_src \in SeqsUpTo(Items, MaxItems)
          /\ fn_in = EncodeTree(fn_src)
       \/ /\ fn_op = "Tree::new_from_meta"
          /\ fn_src = <<>>
          /\ fn_in \in MalformedTrees
       \/ /\ fn_op = "TreeItem::new_from_bytes"
          /\ fn_src = <<>>
          /\ fn_in \in RawEntries \cup MalformedEntries
       \/ /\ fn_op = "TreeItemMode::tree_item_type_from"
          /\ fn_src = <<>>
          /\ fn_in \in ModeInputs
       \/ /\ fn_op = "Signature::new_from_data"
          /\ fn_src \in WellFormedFields
          /\ fn_in = SignatureLine(fn_src[1], fn_src[2], fn_src[3], fn_src[4],
                                   fn_src[5])
       \/ /\ fn_op = "Signature::new_from_data"
          /\ fn_src \in FieldsWithoutZone
          /\ fn_in = SignatureHead(fn_src[1], fn_src[2], fn_src[3], fn_src[4])

\* What every step of a parser leaves alone
ObjectsFrame ==
    UNCHANGED << fn_op, fn_src, fn_in, storeVars, handlerVars, packVars, sinkVars >>

ApplyTreeNewFromMeta ==
    /\ fn_op = "Tree::new_from_meta"
    /\ fn_out = NotRun
    /\ fn_out' = TreeNewFromMeta(fn_in)
    /\ ObjectsFrame

ApplyTreeItemNewFromBytes ==
    /\ fn_op = "TreeItem::new_from_bytes"
    /\ fn_out = NotRun
    /\ fn_out' = TreeItemNewFromBytes(fn_in)
    /\ ObjectsFrame

\* to_bytes of the entry new_from_bytes returned
ApplyTreeItemToBytes ==
    /\ fn_op = "TreeItem::new_from_bytes"
    /\ fn_out.status = "ok"
    /\ fn_out' = [status |-> "serialized", value |-> fn_out.value,
                  bytes |-> TreeItemToBytes(fn_out.value)]
    /\ ObjectsFrame

ApplyTreeItemTypeFrom ==
    /\ fn_op = "TreeItemMode::tree_item_type_from"
    /\ fn_out = NotRun
    /\ fn_out' = tree_item_type_from(fn_in)
    /\ ObjectsFrame

ApplySignatureNewFromData ==
    /\ fn_op = "Signature::new_from_data"
    /\ fn_out = NotRun
    /\ fn_out' = SignatureNewFromData(fn_in)
    /\ ObjectsFrame

\* to_data of the signature new_from_data filled
ApplySignatureToData ==
    /\ fn_op = "Signature::new_from_data"
    /\ fn_out.status = "ok"
    /\ fn_out' = [status |-> "serialized", value |-> fn_out.value,
                  bytes |-> SignatureToData(fn_out.value)]
    /\ ObjectsFrame

NextObjects ==
    \/ ApplyTreeNewFromMeta
    \/ ApplyTreeItemNewFromBytes
    \/ ApplyTreeItemToBytes
    \/ ApplyTreeItemTypeFrom
    \/ ApplySignatureNewFromData
    \/ ApplySignatureToData

SpecObjects == InitObjects /\ [][NextObjects]_vars

(***************************************************************************)
(* Properties of the object parsers                                        *)
(***************************************************************************)
Applied(f) == fn_op = f /\ fn_out # NotRun

\* C21: Tree::new_from_meta applied to the concatenation of the to_bytes of
\* a list of entries returns exactly those entries, in the same order.
TreeParsesItsEntries ==
    (Applied("Tree::new_from_meta") /\ fn_in = EncodeTree(fn_src))
        => fn_out = Ok(fn_src)

TreeParsesItsEntriesWitness ==
    /\ Applied("Tree::new_from_meta")
    /\ fn_out.status = "ok"
    /\ Len(fn_src) >= 2
    /\ fn_in = EncodeTree(fn_src)
    /\ FindByte(fn_src[1].name, SP) # -1
    /\ fn_src[1].id[1] = NUL
    /\ fn_src[2].id[1] = SP

\* C22: for every entry encoding that TreeItem::new_from_bytes accepts,
\* to_bytes of the parsed entry is the encoding itself.
TreeItemRoundTrip ==
    (fn_op = "TreeItem::new_from_bytes" /\ fn_out.status = "serialized")
        => fn_out.bytes = fn_in

\* C23: tree_item_type_from accepts exactly the seven tokens, reads 100664
\* and 100640 as the regular file mode, and returns an error value for
\* every other byte string.
ModeTokensAccepted ==
    Applied("TreeItemMode::tree_item_type_from")
        => /\ fn_in \in AcceptedTokens
                => /\ fn_out.status = "ok"
                   /\ fn_in \in { Token100664, Token100640 } => fn_out.value = "Blob"
                   /\ fn_in \notin { Token100664, Token100640 }
                        => ModeToBytes(fn_out.value) = fn_in
           /\ fn_in \notin AcceptedTokens => fn_out.status = "err"

\* C24: the entries of a tree that Tree::new_from_meta returned have
\* pairwise distinct names.
TreeNamesDistinct ==
    (Applied("Tree::new_from_meta") /\ fn_out.status = "ok")
        => \A i, j \in 1..Len(fn_out.value) :
               i # j => fn_out.value[i].name # fn_out.value[j].name

\* The signature a line with these fields stands for
ExpectedSignature(fields, zone) ==
    SignatureOf(IF fields[1] = AuthorBytes THEN "Author" ELSE "Committer",
                fields[2], fields[3], DigitsValue(fields[4]), zone)

\* C25: new_from_data reads the type, name, email, timestamp and timezone
\* of a well-formed signature line, and to_data gives the line back.
SignatureRoundTrip ==
    (Applied("Signature::new_from_data") /\ fn_src \in WellFormedFields)
        => /\ fn_out.status \in {"ok", "serialized"}
           /\ fn_out.value = ExpectedSignature(fn_src, fn_src[5])
           /\ fn_out.status = "serialized" => fn_out.bytes = fn_in

\* C26: a signature line that ends after the timestamp is parsed, with the
\* timezone "+0000".
MissingZoneDefaults ==
    (Applied("Signature::new_from_data") /\ fn_src \in FieldsWithoutZone)
        => /\ fn_out.status \in {"ok", "serialized"}
           /\ fn_out.value
                = ExpectedSignature(fn_src, << PLUS, 48, 48, 48, 48 >>)

\* C29: Tree::new_from_meta never aborts, and returns an error value for
\* tree data with no NUL after the current position, with fewer than 20
\* bytes after a NUL, or with no space between mode and name.
MalformedTreeIsError ==
    Applied("Tree::new_from_meta")
        => /\ fn_out.status # "panic"
           /\ fn_in \in MalformedTrees => fn_out.status = "err"

(***************************************************************************)
(* MonoRepo::save_entry, entry by entry                                    *)
(***************************************************************************)
MaxBatches == 2

\* The i-th entry the decoder sends
SinkEntry(i) == Entry(IF i % 400 = 1 THEN "commit" ELSE "blob", ToString(i))

SinkInput(n) == [i \in 1..n |-> SinkEntry(i)]

\* Channel contents around the flush threshold
SinkLengths ==
    {0, 1} \cup { k * BatchSize + d : k \in 1..MaxBatches, d \in {-1, 0, 1} }

\* A flush test that lets the list grow past the threshold
SinkFullAbove(list) == Len(list) > BatchSize

\* if entry_list.len() >= 1000
SinkFull(list) == Len(list) >= BatchSize

InitSinkRun ==
    /\ InitHandlers
    /\ InitFn
    /\ se_pc = "recv"
    /\ se_receiver \in { SinkInput(n) : n \in SinkLengths }
    /\ entry_list = <<>>
    /\ save_calls = <<>>
    /\ se_commit_size = 0

SinkFrame == UNCHANGED << storeVars, handlerVars, packVars, fnVars >>

\* One turn of for entry in receiver, up to the flush test
SeRecv ==
    /\ se_pc = "recv"
    /\ se_receiver # <<>>
    /\ se_commit_size' = IF Head(se_receiver).obj_type = "commit"
                         THEN se_commit_size + 1 ELSE se_commit_size
    /\ entry_list' = Append(entry_list, Head(se_receiver))
    /\ se_receiver' = Tail(se_receiver)
    /\ se_pc' = IF SinkFull(entry_list') THEN "flush" ELSE "recv"
    /\ UNCHANGED save_calls
    /\ SinkFrame

\* storage.save_entry(entry_list) inside the loop; entry_list = Vec::new()
SeFlush ==
    /\ se_pc = "flush"
    /\ save_calls' = Append(save_calls, entry_list)
    /\ entry_list' = <<>>
    /\ se_pc' = "recv"
    /\ UNCHANGED << se_receiver, se_commit_size >>
    /\ SinkFrame

\* The channel is closed: storage.save_entry(entry_list) after the loop
SeClose ==
    /\ se_pc = "recv"
    /\ se_receiver = <<>>
    /\ save_calls' = Append(save_calls, entry_list)
    /\ entry_list' = <<>>
    /\ se_pc' = "done"
    /\ UNCHANGED << se_receiver, se_commit_size >>
    /\ SinkFrame

NextSink == SeRecv \/ SeFlush \/ SeClose

SpecSink == InitSinkRun /\ [][NextSink]_vars

RECURSIVE Concat(_)
Concat(lists) ==
    IF lists = <<>> THEN <<>> ELSE Head(lists) \o Concat(Tail(lists))

\* C27: the lists handed to storage.save_entry, concatenated in call order
\* and followed by what is still buffered or in the channel, are the
\* received sequence; every list but the last has exactly 1000 entries and
\* the last one, written when the channel is closed, has fewer.
SinkKeepsSequence ==
    se_pc # "idle"
        => /\ LET all == Concat(save_calls) \o entry_list \o se_receiver
              IN  all = SinkInput(Len(all))
           /\ \A k \in 1..Len(save_calls) :
                  IF se_pc = "done" /\ k = Len(save_calls)
                  THEN Len(save_calls[k]) < BatchSize
                  ELSE Len(save_calls[k]) = BatchSize
           /\ se_pc = "done" => entry_list = <<>> /\ se_receiver = <<>>

SinkKeepsSequenceWitness ==
    /\ se_pc = "done"
    /\ Len(save_calls) >= 3
    /\ save_calls[Len(save_calls)] # <<>>

(***************************************************************************)
(* A push whose future is dropped at one of its await points               *)
(***************************************************************************)
\* The storage calls of unpack, each an await
UnpackAwaits ==
    { "get_mr", "add_comment_update", "add_comment_conflict",
      "save_entry_update", "save_entry_new", "update_mr", "save_mr",
      "add_comment_multi" }

\* The future of unpack is dropped before the storage call it waits for
Cancel(h) ==
    /\ op[h] = "unpack"
    /\ pc[h] \in UnpackAwaits
    /\ pc' = [pc EXCEPT ![h] = "cancelled"]
    /\ UNCHANGED << storeVars, next_id, op, args, unpackLocals, headLocals,
                    refs_out, pre, last_head, calls >>
    /\ UNCHANGED << packVars, fnVars, sinkVars >>

NextCancel == \E h \in SeqHandlers : Unpack(h) \/ Cancel(h) \/ Return(h)

SpecCancel == Init /\ [][NextCancel]_vars

\* C28: after a push was cancelled before unpack returned, the merge
\* requests and their comments are as they were before the push; only
\* persisted entries may remain.
CancelledPushLeavesMr ==
    \A h \in Handlers :
        (op[h] = "unpack" /\ pc[h] = "cancelled")
            => /\ mega_mrs = pre.mrs
               /\ mr_convs = pre.convs

\* The selected commits and the commits still to select or to expand
SelectedIds == { want_commits[k].id : k \in 1..Len(want_commits) }

ExpansionMeasure ==
    2 * Cardinality({ c \in mega_commits : c.id \notin SelectedIds })
    + Len(traversal_list)

\* C30: the parent expansion of incremental_pack selects no commit twice
\* and every turn of it lowers a measure that is never negative, and each
\* selected commit is emitted exactly once.
ExpansionSelectsOnce ==
    /\ [](pk_op = "incremental_pack"
            => /\ \A i, j \in 1..Len(want_commits) :
                      i # j => want_commits[i].id # want_commits[j].id
               /\ pk_pc = "done"
                    => \A c \in Range(want_commits) :
                           Cardinality({ k \in 1..Len(channel) :
                               channel[k] = Entry("commit", c.id) }) = 1)
    /\ [][(pk_pc = "ip_expand" /\ pk_pc' = "ip_expand")
            => ExpansionMeasure' < ExpansionMeasure]_vars

\* A diamond: A is reached from the merge M through C and through X; and
\* want lists A together with a descendant
ExpansionSelectsOnceWitness ==
    /\ IncrementalDone
    /\ have = <<>>
    /\ \/ want = << "ce000000" >>
       \/ want = << "cc000000", "ca000000" >>
    /\ "ca000000" \in SelectedIds

(***************************************************************************)
(* head_hash calls of several handlers for one path interleave at their    *)
(* storage calls                                                           *)
(***************************************************************************)
ConcHeadPaths == { <<"lib">> }
StartHeadHashConc(h) == StartHeadHashWith(h, ConcHeadPaths)

NextHeadConc ==
    \E h \in Handlers :
        \/ StartHeadHashConc(h)
        \/ HhGetRef(h)
        \/ HhGetRootRef(h)
        \/ HhGetCommit(h)
        \/ HhGetTree(h)
        \/ HhSaveRef(h)
        \/ HhSaveCommit(h)
        \/ Return(h)

SpecHeadConc == Init /\ [][NextHeadConc]_vars

\* The objects reachable from the commits ids: the commits and what their
\* trees hold
ObjectsOf(ids) ==
    ids \cup UNION { TreeObjs(c.tree_id) : c \in { x \in mega_commits : x.id \in ids } }

\* What the client lacks: reachable from want, not reachable from have
Needed == ObjectsOf(Reachable(want)) \ ObjectsOf(Reachable(have))

\* C31: when every want and have hash names a stored commit, every commit,
\* tree and blob reachable from want and not reachable from have is among
\* the entries incremental_pack has sent.
NeverUnderSends ==
    (IncrementalDone /\ AllStored(want) /\ AllStored(have))
        => Needed \subseteq { channel[i].hash : i \in 1..Len(channel) }

NeverUnderSendsWitness ==
    /\ IncrementalDone
    /\ AllStored(want)
    /\ AllStored(have)
    /\ have # <<>>
    /\ Needed \cap Emitted("commit") # {}
    /\ Needed \cap Emitted("tree") # {}
    /\ Needed \cap Emitted("blob") # {}
    /\ Len(channel) < Len(PackOf(commits, <<>>))

\* C32: in any interleaving of head_hash calls for a path without a stored
\* reference, save_ref writes the reference of the path at most once, and a
\* call that has finished advertises the hash the stored reference holds.
RefSavedOnce ==
    /\ [][\A h \in Handlers :
            (pc[h] = "hh_save_ref" /\ pc'[h] = "hh_save_commit")
                => mega_refs[args[h].path] = NoRef]_vars
    /\ [](\A h \in Handlers :
            (op[h] = "head_hash" /\ pc[h] = "done" /\ refs_out[h] # <<>>)
                => refs_out[h][1].ref_hash = mega_refs[args[h].path].ref_commit_hash)

\* C33: a push that repeats the from_hash and the to_hash of the path's
\* Open merge request persists no entry, adds no comment and leaves the
\* stored merge requests as they were.
SamePushChangesNothing ==
    \A h \in Handlers :
        (op[h] = "unpack" /\ PushCase(h) = "same")
            => /\ saved_entries = pre.entries
               /\ mr_convs = pre.convs
               /\ mega_mrs = pre.mrs

SamePushChangesNothingWitness ==
    \E h \in Handlers :
        /\ PushDone(h)
        /\ PushCase(h) = "same"
        /\ ~ (Range(args[h].pack) \subseteq pre.entries)

====
